---------------------------- MODULE Spec2Model ----------------------------
(***************************************************************************)
(* Streaming pipeline of module02/02-readable-writable-transform/note.md:  *)
(* CounterSource, Uppercase and HeaderOnce readers, the io.Copy loop, the  *)
(* fixed-chunk read loop, the bufio.Writer program, the io.Pipe            *)
(* producer/consumer example and context cancellation.                     *)
(*                                                                         *)
(* Bytes are their ASCII codes; a byte string is a sequence of codes.  A   *)
(* caller's buffer p is represented by its length len(p) together with the *)
(* bytes a Read stored at its front.                                       *)
(***************************************************************************)
EXTENDS Integers, Sequences, FiniteSets, TLC

(* ------------------------------ bounds -------------------------------- *)

\* largest CounterSource.max explored
MaxN == 3

\* number of Read calls a caller that keeps reading issues
MaxReads == 6

\* number of Write calls made on the buffered writer
MaxWrites == 3

(* ------------------------- byte-level helpers -------------------------- *)

Min(a, b) == IF a <= b THEN a ELSE b

\* "id,name\n"
Header == <<105, 100, 44, 110, 97, 109, 101, 10>>

\* "hello"
Hello == <<104, 101, 108, 108, 111>>

\* "value-"
ValuePrefix == <<118, 97, 108, 117, 101, 45>>

\* "\n"
Newline == <<10>>

\* io.Copy's buffer: 32 KiB
CopyBufSize == 32 * 1024

\* buf := make([]byte, 4096) in Uppercase.Read
UpperBufSize == 4096

L == Len(Header)

\* buf := make([]byte, 64*1024) of the chunk loop
ChunkBufSize == 64 * 1024

\* sizes of the input file: empty, less than one chunk, more than one chunk
FileSizes == {0, Len(Hello), ChunkBufSize + Len(Hello)}

\* bufio.NewWriter's buffer size
BufioSize == 4096

\* "hello\n", what fmt.Fprintln(w, "hello") writes
HelloLn == Hello \o Newline

\* buffer lengths a caller passes to Read
BufSizes == {1, L - 1, L, L + 1}

RECURSIVE Digits(_)
\* %d of a non-negative integer
Digits(k) == IF k < 10 THEN <<48 + k>> ELSE Digits(k \div 10) \o <<48 + (k % 10)>>

\* fmt.Sprintf("value-%d\n", k)
Sprintf(k) == ValuePrefix \o Digits(k) \o Newline

\* UpperByte with the range test written with strict bounds: 'a' and 'z' stay
UpperByteStrict(b) == IF b > 97 /\ b < 122 THEN b - 32 ELSE b

\* bytes.ToUpper on ASCII: 'a'..'z' map to 'A'..'Z'
UpperByte(b) == IF b >= 97 /\ b <= 122 THEN b - 32 ELSE b

ToUpper(s) == [k \in 1..Len(s) |-> UpperByte(s[k])]

\* copy(p, s) for len(p) = sz: the bytes stored in p[0:min(len(p), len(s))]
Copy(sz, s) == SubSeq(s, 1, Min(sz, Len(s)))

IsPrefix(s, t) == Len(s) <= Len(t) /\ SubSeq(t, 1, Len(s)) = s

(* ------------------------------ readers -------------------------------- *)

NoCall == [upstream |-> -1, stored |-> -1, reported |-> -1]

\* CounterRead that rewinds c.i when it reports end-of-stream
CounterReadRewind(ci, cmax, sz) ==
    IF ci >= cmax
    THEN [n |-> 0, err |-> "EOF", data |-> <<>>, i |-> 0]
    ELSE LET d == Copy(sz, Sprintf(ci))
         IN [n |-> Len(d), err |-> "nil", data |-> d, i |-> ci + 1]

\* CounterRead with the end test written c.i > c.max
CounterReadOffByOne(ci, cmax, sz) ==
    IF ci > cmax
    THEN [n |-> 0, err |-> "EOF", data |-> <<>>, i |-> ci]
    ELSE LET d == Copy(sz, Sprintf(ci))
         IN [n |-> Len(d), err |-> "nil", data |-> d, i |-> ci + 1]

\* CounterSource.Read(p), len(p) = sz: result and the new c.i
CounterRead(ci, cmax, sz) ==
    IF ci >= cmax
    THEN [n |-> 0, err |-> "EOF", data |-> <<>>, i |-> ci]
    ELSE LET d == Copy(sz, Sprintf(ci))
         IN [n |-> Len(d), err |-> "nil", data |-> d, i |-> ci + 1]

\* Uppercase.Read(p) over a CounterSource, len(p) = sz
UppercaseRead(ci, cmax, sz) ==
    LET u == CounterRead(ci, cmax, UpperBufSize)
        d == IF u.n > 0 THEN Copy(sz, ToUpper(SubSeq(u.data, 1, u.n))) ELSE <<>>
    IN [n |-> u.n, err |-> u.err, data |-> d, i |-> u.i,
        ucall |-> [upstream |-> u.n, stored |-> Len(d), reported |-> u.n]]

\* HeaderOnce.Read(p) over Uppercase over CounterSource, len(p) = sz
HeaderOnceRead(hdone, ci, cmax, sz) ==
    IF ~hdone
    THEN LET d == Copy(sz, Header)
         IN [n |-> Len(d), err |-> "nil", data |-> d, i |-> ci, done |-> TRUE,
             ucall |-> NoCall]
    ELSE LET r == UppercaseRead(ci, cmax, sz)
         IN [n |-> r.n, err |-> r.err, data |-> r.data, i |-> r.i, done |-> hdone,
             ucall |-> r.ucall]

\* Read on the head of the chain under test
ChainRead(ch, hdone, ci, cmax, sz) ==
    CASE ch = "counter" ->
           LET r == CounterRead(ci, cmax, sz)
           IN [n |-> r.n, err |-> r.err, data |-> r.data, i |-> r.i, done |-> hdone,
               ucall |-> NoCall]
      [] ch = "upper" ->
           LET r == UppercaseRead(ci, cmax, sz)
           IN [n |-> r.n, err |-> r.err, data |-> r.data, i |-> r.i, done |-> hdone,
               ucall |-> r.ucall]
      [] ch = "header" -> HeaderOnceRead(hdone, ci, cmax, sz)

(* ------------------------------- state --------------------------------- *)

VARIABLES
    chain,    \* head reader: "counter", "upper", "header" or "pipe"; "file" for the
              \* chunk loop's input file, "bufio" for the buffered-writer program
    driver,   \* "copy": io.Copy; "reads": a caller issuing Read calls itself;
              \* "chunk": the loop of section 3; "write": writes to the bufio.Writer
    max,      \* CounterSource.max
    i,        \* CounterSource.i
    done,     \* HeaderOnce.done
    sink,     \* bytes the driver has collected from the chunks it was given
    n,        \* byte count reported by the last Read
    err,      \* status of the last Read: "none" before any, "nil", "EOF", or
              \* "EIO" for any other error
    ucall,    \* the last Uppercase.Read: upstream count, bytes stored, count reported
    reads,    \* Read calls issued so far by io.Copy or by the caller
    pc,       \* driver: "loop" or "done"
    ctxDone,  \* ctx.Done() is closed
    printed,  \* main passed its select and printed "cancelled"
    wpc,      \* producer goroutine: "idle" (between calls), "send" (in Write,
              \* offering b on wrCh), "recv" (in Write, receiving on rdCh), "returned"
    wdata,    \* bytes the producer has still to pass to Write
    wb,       \* b of the Write in progress: its bytes not yet taken by a Read
    written,  \* bytes passed to Write so far
    pdone,    \* the pipe's done channel is closed
    rpc,      \* pipe Read: "idle" (not in Read), "wait" (in the select),
              \* "ack" (sending nr on rdCh)
    rsz,      \* len(p) of the Read in progress
    rdata,    \* bytes the Read in progress copied into p
    sinkKind, \* the Writer io.Copy writes to: "full" takes every byte offered,
              \* "short" may take fewer and report no error
    cerr,     \* io.Copy's own result: "nil" or "ErrShortWrite"
    plen,     \* len(p) of the last Read on the head reader
    stored,   \* number of bytes that Read stored in p
    frem,     \* bytes of the input file not read yet
    fbad,     \* every Read of the input file fails (it is a directory)
    fopen,    \* a file handle of the program is open
    closes,   \* Close calls made on it
    total,    \* total of the chunk loop
    bbuf,     \* bufio.Writer: b.buf[0:b.n]
    bout,     \* bytes the bufio.Writer has written to the wrapped file
    bacc,     \* bytes the bufio.Writer has accepted
    bwrites,  \* Write calls made on the bufio.Writer
    bpc       \* buffered-writer program: "run", or "flushed" after the deferred Flush

chainVars == <<max, i, done, ucall>>
pipeVars == <<wpc, wdata, wb, written, pdone, rpc, rsz, rdata>>
ctxVars == <<ctxDone, printed>>
callVars == <<cerr, plen, stored>>
fileVars == <<frem, fbad, fopen, closes, total>>
bufVars == <<bbuf, bout, bacc, bwrites, bpc>>
sideVars == <<sinkKind, fileVars, bufVars>>

vars == <<chain, driver, max, i, done, sink, n, err, ucall, reads, pc, ctxDone, printed,
          wpc, wdata, wb, written, pdone, rpc, rsz, rdata,
          sinkKind, cerr, plen, stored, frem, fbad, fopen, closes, total,
          bbuf, bout, bacc, bwrites, bpc>>

Init ==
    /\ chain \in {"counter", "upper", "header", "pipe", "file", "bufio"}
    /\ driver \in (CASE chain = "file" -> {"chunk"}
                    [] chain = "bufio" -> {"write"}
                    [] OTHER -> {"copy", "reads"})
    /\ max \in (IF chain \in {"counter", "upper", "header"} THEN 0..MaxN ELSE {0})
    /\ i = 0
    /\ done = FALSE
    /\ sink = <<>>
    /\ n = 0
    /\ err = "none"
    /\ ucall = NoCall
    /\ reads = 0
    /\ pc = "loop"
    /\ ctxDone = FALSE
    /\ printed = FALSE
    /\ wpc = (IF chain = "pipe" THEN "idle" ELSE "returned")
    /\ wdata = (IF chain = "pipe" THEN Hello ELSE <<>>)
    /\ wb = <<>>
    /\ written = <<>>
    /\ pdone = FALSE
    /\ rpc = "idle"
    /\ rsz = 0
    /\ rdata = <<>>
    /\ sinkKind \in (IF driver = "copy" /\ chain # "pipe" THEN {"full", "short"} ELSE {"full"})
    /\ cerr = "nil"
    /\ plen = 0
    /\ stored = 0
    /\ frem \in (IF chain = "file" THEN FileSizes ELSE {0})
    /\ fbad \in (IF chain = "file" THEN BOOLEAN ELSE {FALSE})
    /\ fopen = (chain = "file" \/ (driver = "copy" /\ chain # "pipe"))
    /\ closes = 0
    /\ total = 0
    /\ bbuf = <<>>
    /\ bout = <<>>
    /\ bacc = <<>>
    /\ bwrites = 0
    /\ bpc = "run"

(* ------------------------------ drivers -------------------------------- *)

\* byte counts nw a Write of nr bytes may report with a nil error
Accepts(kind, nr) == IF kind = "short" THEN {nr, nr \div 2} ELSE {nr}

\* one iteration of io.Copy's loop over a reader chain: Read into the 32 KiB
\* buffer; if nr > 0, Write buf[0:nr] to the sink and break with ErrShortWrite
\* when nw # nr; break on any error of the Read
CopyIter ==
    /\ driver = "copy" /\ pc = "loop" /\ chain # "pipe"
    /\ LET r == ChainRead(chain, done, i, max, CopyBufSize)
       IN /\ i' = r.i
          /\ done' = r.done
          /\ ucall' = (IF r.ucall = NoCall THEN ucall ELSE r.ucall)
          /\ n' = r.n
          /\ err' = r.err
          /\ plen' = CopyBufSize
          /\ stored' = Len(r.data)
          /\ \E nw \in Accepts(sinkKind, r.n) :
                /\ sink' = (IF r.n > 0 THEN sink \o SubSeq(r.data, 1, nw) ELSE sink)
                /\ cerr' = (IF r.n > 0 /\ nw # r.n THEN "ErrShortWrite" ELSE cerr)
                /\ pc' = (IF (r.n > 0 /\ nw # r.n) \/ r.err # "nil" THEN "done" ELSE "loop")
    /\ reads' = reads + 1
    /\ UNCHANGED <<chain, driver, max, ctxVars, pipeVars, sideVars>>

\* a caller reading the chain with a buffer of its own choice, collecting what
\* each Read stored; it keeps calling after end-of-stream
CallerRead(sz) ==
    /\ driver = "reads" /\ pc = "loop" /\ chain # "pipe"
    /\ reads < MaxReads
    /\ LET r == ChainRead(chain, done, i, max, sz)
       IN /\ i' = r.i
          /\ done' = r.done
          /\ ucall' = (IF r.ucall = NoCall THEN ucall ELSE r.ucall)
          /\ n' = r.n
          /\ err' = r.err
          /\ sink' = sink \o r.data
          /\ plen' = sz
          /\ stored' = Len(r.data)
    /\ reads' = reads + 1
    /\ UNCHANGED <<chain, driver, max, pc, ctxVars, pipeVars, sideVars, cerr>>

(* ----------------------------- chunk loop ------------------------------ *)

\* file.Read(buf), len(buf) = sz: result and the bytes left in the file
FileRead(rem, bad, sz) ==
    IF bad THEN [n |-> 0, err |-> "EIO", rem |-> rem]
    ELSE IF rem = 0 THEN [n |-> 0, err |-> "EOF", rem |-> rem]
    ELSE [n |-> Min(sz, rem), err |-> "nil", rem |-> rem - Min(sz, rem)]

\* one iteration of the loop of section 3: Read into the 64 KiB buffer, add n
\* to total, break only when err == io.EOF
ChunkIter ==
    /\ driver = "chunk" /\ pc = "loop"
    /\ LET r == FileRead(frem, fbad, ChunkBufSize)
       IN /\ n' = r.n
          /\ err' = r.err
          /\ frem' = r.rem
          /\ total' = (IF r.n > 0 THEN total + r.n ELSE total)
          /\ plen' = ChunkBufSize
          /\ stored' = r.n
          /\ pc' = (IF r.err = "EOF" THEN "done" ELSE "loop")
    /\ UNCHANGED <<chain, driver, chainVars, sink, reads, ctxVars, pipeVars,
                   sinkKind, cerr, fbad, fopen, closes, bufVars>>

\* the function returns once its loop (or io.Copy) has ended: the deferred
\* file.Close() / out.Close() runs
Return ==
    /\ pc = "done" /\ fopen
    /\ fopen' = FALSE
    /\ closes' = closes + 1
    /\ UNCHANGED <<chain, driver, chainVars, sink, n, err, reads, pc, ctxVars, pipeVars,
                   sinkKind, callVars, frem, fbad, total, bufVars>>

(* ---------------------------- bufio.Writer ----------------------------- *)

\* sizes of the slices written to the buffered writer: "hello\n", and slices
\* that fill the buffer exactly or exceed it
BufWriteSizes == {Len(HelloLn), BufioSize - Len(HelloLn), BufioSize, BufioSize + 1}

\* k bytes of "hello\nhello\n..." continuing at offset start
Pattern(start, k) == [j \in 1..k |-> HelloLn[((start + j - 1) % Len(HelloLn)) + 1]]

\* BufioFlush that resets b.n without writing the buffer out
BufioFlushDrop(buf, out) == [buf |-> <<>>, out |-> out]

\* b.Flush(): write b.buf[0:b.n] to the wrapped file, b.n = 0
BufioFlush(buf, out) == [buf |-> <<>>, out |-> out \o buf]

RECURSIVE BufioWrite(_, _, _)
\* b.Write(p): while p exceeds the room left, write p straight through if the
\* buffer is empty, else fill the buffer and flush; then buffer the rest
BufioWrite(buf, out, p) ==
    IF Len(p) > BufioSize - Len(buf)
    THEN IF Len(buf) = 0
         THEN [buf |-> <<>>, out |-> out \o p]
         ELSE LET k == BufioSize - Len(buf)
                  f == BufioFlush(buf \o SubSeq(p, 1, k), out)
              IN BufioWrite(f.buf, f.out, SubSeq(p, k + 1, Len(p)))
    ELSE [buf |-> buf \o p, out |-> out]

\* the program writes k bytes to the buffered writer
BufWrite(k) ==
    /\ chain = "bufio" /\ bpc = "run" /\ bwrites < MaxWrites
    /\ LET p == Pattern(Len(bacc), k)
           w == BufioWrite(bbuf, bout, p)
       IN /\ bbuf' = w.buf
          /\ bout' = w.out
          /\ bacc' = bacc \o p
    /\ bwrites' = bwrites + 1
    /\ UNCHANGED <<chain, driver, chainVars, sink, n, err, reads, pc, ctxVars, pipeVars,
                   sinkKind, callVars, fileVars, bpc>>

\* the program returns: the deferred w.Flush() runs
BufReturn ==
    /\ chain = "bufio" /\ bpc = "run"
    /\ LET f == BufioFlush(bbuf, bout)
       IN /\ bbuf' = f.buf
          /\ bout' = f.out
    /\ bpc' = "flushed"
    /\ UNCHANGED <<chain, driver, chainVars, sink, n, err, reads, pc, ctxVars, pipeVars,
                   sinkKind, callVars, fileVars, bacc, bwrites>>

(* ------------------------------- io.Pipe ------------------------------- *)

\* sizes of the slices the producer passes to Write: the example's single
\* Write("hello"), and the same bytes passed two at a time
WriteSizes == {Len(Hello), 2}

\* PipeCopy taking the last bytes of bw instead of the first
PipeCopyTail(sz, bw) == SubSeq(bw, Len(bw) - Min(sz, Len(bw)) + 1, Len(bw))

\* nr := copy(b, bw) in the pipe's read
PipeCopy(sz, bw) == Copy(sz, bw)

\* WriteRest that forgets what the Read did not take
WriteRestNone(b, nw) == <<>>

\* b = b[nw:] in the pipe's write loop
WriteRest(b, nw) == SubSeq(b, nw + 1, Len(b))

\* WriteContinues of a loop that runs once only
WriteContinuesOnce(b) == FALSE

\* the write loop goes round again while len(b) > 0
WriteContinues(b) == Len(b) > 0

\* what the driver does with the result (nr, er) of a pipe Read
Deliver(nr, er, d) ==
    /\ n' = nr
    /\ err' = er
    /\ sink' = (IF driver = "copy" /\ nr = 0 THEN sink ELSE sink \o d)
    /\ pc' = (IF driver = "copy" /\ er # "nil" THEN "done" ELSE pc)

\* the producer calls w.Write(b): with done closed it fails at once, otherwise
\* it starts offering b on wrCh
PipeWriteCall(k) ==
    /\ chain = "pipe" /\ wpc = "idle" /\ Len(wdata) > 0
    /\ LET b == SubSeq(wdata, 1, Min(k, Len(wdata)))
       IN /\ wdata' = SubSeq(wdata, Len(b) + 1, Len(wdata))
          /\ written' = written \o b
          /\ IF pdone
             THEN wb' = <<>> /\ wpc' = "idle"
             ELSE wb' = b /\ wpc' = "send"
    /\ UNCHANGED <<sideVars, callVars, chain, driver, chainVars, sink, n, err, reads, pc, ctxVars,
                   pdone, rpc, rsz, rdata>>

\* the consumer calls r.Read(p): with done closed it returns (0, EOF) at once,
\* otherwise it waits in the select on wrCh and done
PipeReadCall(sz) ==
    /\ chain = "pipe" /\ pc = "loop" /\ rpc = "idle"
    /\ IF driver = "copy" THEN sz = CopyBufSize ELSE sz \in BufSizes /\ reads < MaxReads
    /\ reads' = reads + 1
    /\ IF pdone
       THEN /\ Deliver(0, "EOF", <<>>)
            /\ UNCHANGED <<rpc, rsz>>
       ELSE /\ rpc' = "wait"
            /\ rsz' = sz
            /\ UNCHANGED <<sink, n, err, pc>>
    /\ UNCHANGED <<sideVars, callVars, chain, driver, chainVars, ctxVars, wpc, wdata, wb, written, pdone, rdata>>

\* wrCh rendezvous: the waiting Read receives bw and copies into p
PipeTransfer ==
    /\ chain = "pipe" /\ wpc = "send" /\ rpc = "wait"
    /\ rdata' = PipeCopy(rsz, wb)
    /\ rpc' = "ack"
    /\ wpc' = "recv"
    /\ UNCHANGED <<sideVars, callVars, chain, driver, chainVars, sink, n, err, reads, pc, ctxVars,
                   wdata, wb, written, pdone, rsz>>

\* rdCh rendezvous: the Read returns (nr, nil); the Write advances b by nw and
\* either offers the rest or returns
PipeAck ==
    /\ chain = "pipe" /\ wpc = "recv" /\ rpc = "ack"
    /\ Deliver(Len(rdata), "nil", rdata)
    /\ rpc' = "idle"
    /\ wb' = WriteRest(wb, Len(rdata))
    /\ wpc' = (IF WriteContinues(wb') THEN "send" ELSE "idle")
    /\ UNCHANGED <<sideVars, callVars, chain, driver, chainVars, reads, ctxVars, wdata, written, pdone,
                   rsz, rdata>>

\* the waiting Read sees done closed: (0, EOF)
PipeReadClosed ==
    /\ chain = "pipe" /\ rpc = "wait" /\ pdone
    /\ Deliver(0, "EOF", <<>>)
    /\ rpc' = "idle"
    /\ UNCHANGED <<sideVars, callVars, chain, driver, chainVars, reads, ctxVars, wpc, wdata, wb, written,
                   pdone, rsz, rdata>>

\* PipeClose that returns without closing the done channel
PipeCloseNoSignal ==
    /\ chain = "pipe" /\ wpc = "idle" /\ wdata = <<>>
    /\ wpc' = "returned"
    /\ UNCHANGED <<sideVars, callVars, chain, driver, chainVars, sink, n, err, reads, pc,
                   ctxVars, wdata, wb, written, pdone, rpc, rsz, rdata>>

\* w.Close() once every Write has returned
PipeClose ==
    /\ chain = "pipe" /\ wpc = "idle" /\ wdata = <<>>
    /\ pdone' = TRUE
    /\ wpc' = "returned"
    /\ UNCHANGED <<sideVars, callVars, chain, driver, chainVars, sink, n, err, reads, pc, ctxVars,
                   wdata, wb, written, rpc, rsz, rdata>>

(* ---------------------------- cancellation ----------------------------- *)

\* the goroutine of section 15: time.Sleep, then cancel()
Cancel ==
    /\ ~ctxDone
    /\ ctxDone' = TRUE
    /\ UNCHANGED <<sideVars, callVars, chain, driver, chainVars, sink, n, err, reads, pc, printed, pipeVars>>

\* MainSelect receiving a value that the receive consumes, so that the signal
\* is gone afterwards
MainSelectConsume ==
    /\ ctxDone /\ ~printed
    /\ printed' = TRUE
    /\ ctxDone' = FALSE
    /\ UNCHANGED <<sideVars, callVars, chain, driver, chainVars, sink, n, err, reads, pc,
                   pipeVars>>

\* main's select { case <-ctx.Done(): fmt.Println("cancelled") }
MainSelect ==
    /\ ctxDone /\ ~printed
    /\ printed' = TRUE
    /\ UNCHANGED <<sideVars, callVars, chain, driver, chainVars, sink, n, err, reads, pc, ctxDone, pipeVars>>

Next ==
    \/ CopyIter
    \/ \E sz \in BufSizes : CallerRead(sz)
    \/ ChunkIter
    \/ Return
    \/ \E k \in BufWriteSizes : BufWrite(k)
    \/ BufReturn
    \/ \E k \in WriteSizes : PipeWriteCall(k)
    \/ \E sz \in BufSizes \cup {CopyBufSize} : PipeReadCall(sz)
    \/ PipeTransfer
    \/ PipeAck
    \/ PipeReadClosed
    \/ PipeClose
    \/ Cancel
    \/ MainSelect

Spec == Init /\ [][Next]_vars

\* every goroutine and every enabled step is eventually run
Fairness ==
    /\ WF_vars(CopyIter)
    /\ WF_vars(ChunkIter)
    /\ WF_vars(Return)
    /\ WF_vars(BufReturn)
    /\ WF_vars(\E k \in WriteSizes : PipeWriteCall(k))
    /\ WF_vars(\E sz \in BufSizes \cup {CopyBufSize} : PipeReadCall(sz))
    /\ WF_vars(PipeTransfer)
    /\ WF_vars(PipeAck)
    /\ WF_vars(PipeReadClosed)
    /\ WF_vars(PipeClose)
    /\ WF_vars(Cancel)
    /\ WF_vars(MainSelect)

FairSpec == Spec /\ Fairness



(* ------------------------------- claims -------------------------------- *)

RECURSIVE AllRecords(_)
\* "value-0\n" ... "value-(k-1)\n"
AllRecords(k) == IF k = 0 THEN <<>> ELSE AllRecords(k - 1) \o Sprintf(k - 1)

\* "id,name\nVALUE-0\nVALUE-1\nVALUE-2\n"
Expected ==
    <<105, 100, 44, 110, 97, 109, 101, 10,
      86, 65, 76, 85, 69, 45, 48, 10,
      86, 65, 76, 85, 69, 45, 49, 10,
      86, 65, 76, 85, 69, 45, 50, 10>>

\* C1: when io.Copy has driven HeaderOnce(Uppercase(CounterSource{max: 3})) to
\* end-of-stream, the sink holds exactly the header followed by the three
\* uppercased records.
C1_EndToEnd ==
    (chain = "header" /\ driver = "copy" /\ sinkKind = "full" /\ max = 3 /\ pc = "done")
        => sink = Expected

C1_Witness ==
    chain = "header" /\ driver = "copy" /\ sinkKind = "full" /\ max = 3 /\ pc = "done"
        /\ err = "EOF" /\ i = 3 /\ Len(sink) = 32

\* C2: for every sequence of caller buffer sizes, the chunks a CounterSource
\* returned before end-of-stream concatenate to the full record sequence.
C2_NoByteLost ==
    (chain = "counter" /\ err = "EOF") => sink = AllRecords(max)

\* C3: the output of HeaderOnce starts with the prologue bytes, once and in
\* order, before any upstream byte, whatever buffer sizes the caller uses.
C3_PrologueFirst ==
    chain = "header" =>
        /\ IsPrefix(sink, Header) \/ IsPrefix(Header, sink)
        /\ (i > 0 \/ err = "EOF") => IsPrefix(Header, sink)

\* C4: once a Read of CounterSource, or of HeaderOnce(Uppercase(CounterSource)),
\* has returned end-of-stream, every later Read returns end-of-stream with zero
\* bytes.
C4_NoResurrection ==
    [][(chain \in {"counter", "header"} /\ err = "EOF" /\ reads' > reads)
          => (err' = "EOF" /\ n' = 0 /\ sink' = sink)]_vars

C4_Witness ==
    chain = "header" /\ max > 0 /\ err = "EOF" /\ reads >= max + 3

\* C5: on every call Uppercase.Read stores, and reports, as many bytes as it
\* read from its upstream in that call.
C5_LengthPreserving ==
    ucall # NoCall =>
        (ucall.stored = ucall.upstream /\ ucall.reported = ucall.upstream)

\* io.Pipe() takes no capacity: the pipe keeps no queue of its own
PipeCapacity == 0

\* bytes passed to the Write in progress that no Read has taken yet
Queued == Len(wb)

InWrite == wpc \in {"send", "recv"}

C7_CloseLosesNothing ==
    (chain = "pipe" /\ err = "EOF") => (pdone /\ written = Hello /\ sink = written)

C7_Witness ==
    chain = "pipe" /\ err = "EOF" /\ sink = Hello /\ reads > 2

\* C8: what the consumer has read is at every point a prefix of what the
\* producer has written.
C8_Ordering ==
    chain = "pipe" => IsPrefix(sink, written)

C8_Witness ==
    chain = "pipe" /\ Len(sink) > 1 /\ Len(sink) < Len(written)

\* C9: a pipe Read that is blocked when the cancellation signal is set returns
\* with a cancelled status.
C9_CancelWakesRead ==
    [][(ctxDone /\ rpc = "wait" /\ rpc' # "wait") => (rpc' = "idle" /\ err' = "cancelled")]_vars

\* C10: once the cancellation signal is set the copy loop starts no further
\* iteration.
C10_NoIterationAfterCancel ==
    [][(driver = "copy" /\ ctxDone) => reads' = reads]_vars

\* C11: when a Read of the Source returns an error other than end-of-stream,
\* the read loop has stopped: it performs no further Read.
C11_ErrorStopsLoop ==
    (chain = "file" /\ err = "EIO") => pc = "done"

\* C12: a Write that takes fewer bytes than offered, without an error, is no
\* failure of the copy loop, and when the loop has ended the sink has consumed
\* every byte that was read from the Source.
C12_RetryRemainder ==
    (chain = "counter" /\ driver = "copy") =>
        (cerr = "nil" /\ (pc = "done" => sink = AllRecords(i)))

\* C13: the bytes the buffered writer has delivered to the wrapped file are at
\* all times a prefix of the bytes it has accepted (the rest is in its buffer,
\* which never exceeds its size), and after the final Flush they are equal.
C13_NoTrailingLoss ==
    chain = "bufio" =>
        /\ IsPrefix(bout, bacc)
        /\ bout \o bbuf = bacc
        /\ Len(bbuf) <= BufioSize
        /\ bpc = "flushed" => bout = bacc

C13_Witness ==
    chain = "bufio" /\ bpc = "flushed" /\ bwrites = 2
        /\ Len(bacc) = BufioSize + Len(HelloLn) /\ bout = bacc

\* C14: a Read on HeaderOnce made while the prologue is not yet fully
\* delivered performs no Read on its upstream: CounterSource.i is unchanged,
\* no Uppercase.Read is made, and the status is not the upstream's.
C14_NoUpstreamBeforePrologue ==
    [][(chain = "header" /\ ~IsPrefix(Header, sink) /\ reads' > reads)
          => (i' = i /\ ucall' = ucall /\ err' = "nil")]_vars

\* a step of the program that owns the file handle
DriverStep == CopyIter \/ ChunkIter \/ Return

\* C15: a file handle is closed at most once, it is closed once the driver
\* loop has stopped and the function has returned, and no run stops or spins
\* in place with the handle still open: while it is open the driver can still
\* take a step that changes its state.
C15_HandleReleased ==
    /\ closes <= 1
    /\ (closes = 1) => (~fopen /\ pc = "done")
    /\ fopen => ENABLED <<DriverStep>>_vars

\* C16: once cancel() has been called ctx.Done() stays closed; only the
\* cancel step closes it (nothing else changes in that step); and a reader
\* that has passed its check of the signal did so with the signal set.
C16_SignalMonotone ==
    /\ [][ctxDone => ctxDone']_vars
    /\ [][(~ctxDone /\ ctxDone') =>
            UNCHANGED <<sideVars, callVars, chain, driver, chainVars, sink, n, err,
                        reads, pc, pipeVars, printed>>]_vars
    /\ [](printed => ctxDone)

C16_Witness ==
    ctxDone /\ printed /\ pc = "done" /\ reads > 1

\* C17: every Read of CounterSource, Uppercase and HeaderOnce reports a count
\* n with 0 <= n <= len(p), and n is the number of bytes it stored in p.
C17_CountWithinBuffer ==
    (chain \in {"counter", "upper", "header"} /\ err # "none") =>
        (0 <= n /\ n <= plen /\ n = stored)

\* C18: CounterSource keeps 0 <= i <= max; a Read that does not return
\* end-of-stream increases i by exactly 1 and one that does leaves it alone;
\* so the first end-of-stream comes after exactly max other Reads, which
\* delivered the records 0 .. max-1 in ascending order.
C18_CounterProgress ==
    /\ [](chain \in {"counter", "upper", "header"} => (0 <= i /\ i <= max))
    /\ [][(chain = "counter" /\ reads' > reads) =>
            \/ err' = "nil" /\ i' = i + 1
            \/ err' = "EOF" /\ i' = i]_vars
    /\ [](chain = "counter" =>
            /\ err = "EOF" => i = max
            /\ err \in {"none", "nil"} => reads = i
            /\ (driver = "copy" /\ sinkKind = "full") => sink = AllRecords(i))

C18_Witness ==
    chain = "counter" /\ driver = "copy" /\ sinkKind = "full" /\ max >= 2
        /\ i = max /\ err = "EOF" /\ reads = max + 1

\* C19: under fair scheduling the producer/consumer pipe example terminates:
\* the producer returns from Write and Close, and the copy loop returns after
\* reading end-of-stream.
C19_PipeTerminates ==
    (chain = "pipe" /\ driver = "copy") =>
        <>(wpc = "returned" /\ rpc = "idle" /\ pc = "done" /\ err = "EOF")

C19_Witness ==
    chain = "pipe" /\ driver = "copy" /\ wpc = "returned" /\ rpc = "idle"
        /\ pc = "done" /\ err = "EOF" /\ sink = Hello

=============================================================================
